---- MODULE Spec2Model ----
(***************************************************************************)
(* Model of development-stacks/ai-ml-integration/templates/                *)
(* embedding-utils.py: the embedding cache, the similarity search, the     *)
(* deduplicator and the two text chunkers.                                 *)
(*                                                                         *)
(* The module holds four specifications over one set of variables, one per *)
(* component; each specification leaves the other components' variables at *)
(* their idle values:                                                      *)
(*   SpecCache   EmbeddingCache: get, set, get_or_compute                  *)
(*   SpecSearch  search_similar                                            *)
(*   SpecDedup   deduplicate_by_similarity                                 *)
(*   SpecChunk   chunk_text and chunk_by_tokens                            *)
(***************************************************************************)
EXTENDS Integers, Sequences, FiniteSets

VARIABLES
    pc,               \* position of the running call
    \* EmbeddingCache
    max_size,         \* self.max_size
    cache,            \* self.cache: a dict, kept as its items in insertion order
    setLog,           \* history: the (text, embedding) arguments of every call of set
    lastOp,           \* history: the last call made on the cache and its outcome
    \* search_similar and deduplicate_by_similarity
    query_embedding, embeddings, top_k, threshold,
    similarities, top_indices, results,
    i, unique_indices,
    \* chunk_text and chunk_by_tokens
    fn, text, chunk_size, overlap,
    paragraphs, p, current_chunk, current_size, chunks, start

cacheVars  == <<max_size, cache, setLog, lastOp>>
vectorVars == <<query_embedding, embeddings, top_k, threshold,
                similarities, top_indices, results, i, unique_indices>>
chunkVars  == <<fn, text, chunk_size, overlap,
                paragraphs, p, current_chunk, current_size, chunks, start>>
vars == <<pc, cacheVars, vectorVars, chunkVars>>

\* None, where an embedding is expected (the embeddings are 1 and 2).
None == 0

\* No call made yet.
NoOp == [op |-> "none", text |-> 0, ret |-> None, computed |-> FALSE,
         raised |-> FALSE, full |-> FALSE, evicted |-> 0]

CacheIdle ==
    /\ max_size = 0 /\ cache = <<>> /\ setLog = <<>> /\ lastOp = NoOp
VectorIdle ==
    /\ query_embedding = <<>> /\ embeddings = <<>> /\ top_k = 0
    /\ threshold = [nan |-> FALSE, num |-> 0, den |-> 1]
    /\ similarities = <<>> /\ top_indices = <<>> /\ results = <<>>
    /\ i = 0 /\ unique_indices = <<>>
ChunkIdle ==
    /\ fn = "none" /\ text = <<>> /\ chunk_size = 0 /\ overlap = 0
    /\ paragraphs = <<>> /\ p = 0 /\ current_chunk = <<>> /\ current_size = 0
    /\ chunks = <<>> /\ start = 0

(***************************************************************************)
(* EmbeddingCache                                                          *)
(***************************************************************************)

\* Bounds of the cache model.
MaxCap    == 2      \* max_size ranges over 0..MaxCap
NumTexts  == 4      \* texts are 1..NumTexts
NumHashes == 3      \* hash values are 0..NumHashes-1: fewer than texts, so two texts collide
MaxSets   == 3      \* calls of set in one behaviour

Texts      == 1..NumTexts
\* Two embeddings: enough to tell a stored vector from a recomputed one.
Embeddings == {1, 2}

\* hash(text): deterministic for a text, not injective.
Hash(t) == t % NumHashes

\* dict.get(key): the value stored under key, None if there is none.
DictGet(d, k) ==
    IF \E n \in 1..Len(d) : d[n].key = k
    THEN d[CHOOSE n \in 1..Len(d) : d[n].key = k].val
    ELSE None

\* d[key] = value: an existing key keeps its place, a new key goes last.
DictSetItem(d, k, v) ==
    IF \E n \in 1..Len(d) : d[n].key = k
    THEN [n \in 1..Len(d) |-> IF d[n].key = k THEN [key |-> k, val |-> v] ELSE d[n]]
    ELSE Append(d, [key |-> k, val |-> v])

\* The key a faulty eviction would pick: the newest instead of the oldest.
LastKey(d) == d[Len(d)].key

\* next(iter(d)): the first key in insertion order (d is not empty).
FirstKey(d) == d[1].key

\* del d[key]
DictDel(d, k) == SelectSeq(d, LAMBDA e : e.key # k)

\* EmbeddingCache.get
CacheGet(d, t) == DictGet(d, Hash(t))

\* EmbeddingCache.set: [cache, raised, full, evicted]. At capacity it removes the
\* first key; next(iter({})) on an empty dict raises StopIteration and leaves the
\* dict as it was.
CacheSet(d, cap, t, v) ==
    IF Len(d) >= cap
    THEN IF d = <<>>
         THEN [cache |-> d, raised |-> TRUE, full |-> TRUE, evicted |-> 0]
         ELSE LET e == DictDel(d, FirstKey(d))
              IN  [cache |-> DictSetItem(e, Hash(t), v), raised |-> FALSE,
                   full |-> TRUE, evicted |-> Len(d) - Len(e)]
    ELSE [cache |-> DictSetItem(d, Hash(t), v), raised |-> FALSE,
          full |-> FALSE, evicted |-> 0]

InitCache ==
    /\ pc = "cache"
    /\ max_size \in 0..MaxCap
    /\ cache = <<>>
    /\ setLog = <<>>
    /\ lastOp = NoOp
    /\ VectorIdle /\ ChunkIdle

\* cache.get(text)
get(t) ==
    /\ pc = "cache"
    /\ lastOp' = [op |-> "get", text |-> t, ret |-> CacheGet(cache, t),
                  computed |-> FALSE, raised |-> FALSE, full |-> FALSE, evicted |-> 0]
    /\ UNCHANGED <<pc, max_size, cache, setLog, vectorVars, chunkVars>>

\* cache.set(text, embedding)
set(t, v) ==
    /\ pc = "cache"
    /\ Len(setLog) < MaxSets
    /\ LET r == CacheSet(cache, max_size, t, v)
       IN  /\ cache' = r.cache
           /\ lastOp' = [op |-> "set", text |-> t, ret |-> None, computed |-> FALSE,
                         raised |-> r.raised, full |-> r.full, evicted |-> r.evicted]
    /\ setLog' = Append(setLog, [text |-> t, emb |-> v])
    /\ UNCHANGED <<pc, max_size, vectorVars, chunkVars>>

\* cache.get_or_compute(text, compute_fn), when the text is cached
get_or_compute_hit(t) ==
    /\ pc = "cache"
    /\ CacheGet(cache, t) # None
    /\ lastOp' = [op |-> "get_or_compute", text |-> t, ret |-> CacheGet(cache, t),
                  computed |-> FALSE, raised |-> FALSE, full |-> FALSE, evicted |-> 0]
    /\ UNCHANGED <<pc, max_size, cache, setLog, vectorVars, chunkVars>>

\* cache.get_or_compute(text, compute_fn), when it is not: compute_fn(text) returns
\* some embedding v, which is stored with set and returned (nothing is returned
\* when set raises).
get_or_compute_miss(t, v) ==
    /\ pc = "cache"
    /\ CacheGet(cache, t) = None
    /\ Len(setLog) < MaxSets
    /\ LET r == CacheSet(cache, max_size, t, v)
       IN  /\ cache' = r.cache
           /\ lastOp' = [op |-> "get_or_compute", text |-> t,
                         ret |-> IF r.raised THEN None ELSE v, computed |-> TRUE,
                         raised |-> r.raised, full |-> r.full, evicted |-> r.evicted]
    /\ setLog' = Append(setLog, [text |-> t, emb |-> v])
    /\ UNCHANGED <<pc, max_size, vectorVars, chunkVars>>

NextCache ==
    \/ \E t \in Texts : get(t)
    \/ \E t \in Texts, v \in Embeddings : set(t, v)
    \/ \E t \in Texts : get_or_compute_hit(t)
    \/ \E t \in Texts, v \in Embeddings : get_or_compute_miss(t, v)

SpecCache == InitCache /\ [][NextCache]_vars

\* The texts of a log of set calls have pairwise distinct hashes (and so are distinct).
DistinctHashes(log) ==
    \A a, b \in 1..Len(log) : a # b => Hash(log[a].text) # Hash(log[b].text)

\* C1: after every operation the cache holds at most max_size entries, no call
\* has failed, and a set made at capacity evicted exactly one entry before it
\* inserted.
CacheCapacityClaim ==
    /\ Len(cache) <= max_size
    /\ ~lastOp.raised
    /\ (lastOp.full => lastOp.evicted = 1)

\* C2: once max_size + 1 texts with distinct hashes have been given to set, in any
\* interleaving with get calls, the cache holds exactly max_size entries, the
\* first-inserted text is absent and every later one is retrieved with the
\* embedding it was set to.
FifoEviction ==
    (Len(setLog) = max_size + 1 /\ DistinctHashes(setLog)) =>
        /\ Len(cache) = max_size
        /\ CacheGet(cache, setLog[1].text) = None
        /\ \A n \in 2..Len(setLog) : CacheGet(cache, setLog[n].text) = setLog[n].emb

\* A cache of the largest capacity after max_size + 1 distinct insertions, just
\* asked for the first-inserted text.
FifoEvictionWitness ==
    /\ max_size = MaxCap
    /\ Len(setLog) = max_size + 1 /\ DistinctHashes(setLog)
    /\ lastOp.op = "get" /\ lastOp.text = setLog[1].text

\* C3: of two consecutive get_or_compute calls for the same text the second does
\* not call compute_fn and returns what the first returned.
MemoizeClaim ==
    [][(/\ lastOp.op = "get_or_compute"
        /\ lastOp'.op = "get_or_compute"
        /\ lastOp'.text = lastOp.text)
       => (~lastOp'.computed /\ lastOp'.ret = lastOp.ret)]_vars

(***************************************************************************)
(* Vectors and similarity                                                  *)
(*                                                                         *)
(* Embeddings are integer vectors of one dimension. A similarity is kept   *)
(* exactly: cos = dot / (|a| |b|) is the record [nan, num, den] standing   *)
(* for sign(dot) * dot^2 / (|a|^2 |b|^2), the cosine squared with its sign *)
(* kept, which orders as the cosine does; a threshold is given on the same *)
(* scale. A zero norm divides 0 by 0: numpy gives nan and goes on.         *)
(***************************************************************************)

MaxN == 3      \* bound: number of candidate vectors

\* The vectors candidates and queries are drawn from: the zero vector, a vector
\* and its double, an orthogonal one, one at 45 degrees, an opposite one.
Vectors == {<<0, 0>>, <<1, 0>>, <<2, 0>>, <<0, 1>>, <<1, 1>>, <<-1, 0>>}

\* Thresholds, as signed squares: 0.0, about 0.707, 0.95 and 1.0.
Thresholds == {[nan |-> FALSE, num |-> 0, den |-> 1],
               [nan |-> FALSE, num |-> 1, den |-> 2],
               [nan |-> FALSE, num |-> 361, den |-> 400],
               [nan |-> FALSE, num |-> 1, den |-> 1]}
One == [nan |-> FALSE, num |-> 1, den |-> 1]

VectorLists == UNION {[1..n -> Vectors] : n \in 0..MaxN}

Min(a, b) == IF a < b THEN a ELSE b
Max(a, b) == IF a > b THEN a ELSE b

RECURSIVE SumTo(_, _)
SumTo(f, n) == IF n = 0 THEN 0 ELSE f[n] + SumTo(f, n - 1)

\* np.dot(a, b)
Dot(a, b) == SumTo([k \in 1..Len(a) |-> a[k] * b[k]], Len(a))

\* np.linalg.norm(a), squared
Norm2(a) == Dot(a, a)

\* cosine_similarity(a, b)
cosine_similarity(a, b) ==
    LET d == Dot(a, b)
        n == Norm2(a) * Norm2(b)
    IN  IF n = 0
        THEN [nan |-> TRUE, num |-> 0, den |-> 1]
        ELSE [nan |-> FALSE, num |-> IF d < 0 THEN -(d * d) ELSE d * d, den |-> n]

\* cosine_similarity_matrix(embeddings, query): every row and the query are
\* normalized, then multiplied; a zero row or a zero query gives nan.
cosine_similarity_matrix(es, q) ==
    [k \in 1..Len(es) |-> cosine_similarity(es[k], q)]

\* x < y, x >= y and x == y on floats: every comparison with nan is False.
Lt(x, y) == ~x.nan /\ ~y.nan /\ x.num * y.den < y.num * x.den
Ge(x, y) == ~x.nan /\ ~y.nan /\ x.num * y.den >= y.num * x.den
Eq(x, y) == ~x.nan /\ ~y.nan /\ x.num * y.den = y.num * x.den

\* The order np.argsort sorts floats by: ascending, nan after every number.
SortsBefore(x, y) == (~x.nan /\ y.nan) \/ Lt(x, y)

\* The results np.argsort(sims) may give, as 0-based indices: the default kind
\* (quicksort) is not stable, so equal elements come in any order.
ArgSorts(sims) ==
    LET n == Len(sims)
    IN  {perm \in [1..n -> 0..(n - 1)] :
            /\ \A a, b \in 1..n : a # b => perm[a] # perm[b]
            /\ \A a, b \in 1..n :
                  a < b => ~SortsBefore(sims[perm[b] + 1], sims[perm[a] + 1])}

\* seq[::-1]
Reversed(seq) == [k \in 1..Len(seq) |-> seq[Len(seq) + 1 - k]]

\* seq[:k]: a negative k counts from the end.
SliceTo(seq, k) ==
    IF k >= 0 THEN SubSeq(seq, 1, Min(k, Len(seq)))
    ELSE SubSeq(seq, 1, Max(Len(seq) + k, 0))

(***************************************************************************)
(* search_similar                                                          *)
(***************************************************************************)

MaxK == 3      \* bound: top_k ranges over 0..MaxK

InitSearch ==
    /\ pc = "search"
    /\ query_embedding \in Vectors
    /\ embeddings \in VectorLists
    /\ top_k \in 0..MaxK
    /\ threshold \in Thresholds
    /\ similarities = <<>> /\ top_indices = <<>> /\ results = <<>>
    /\ i = 0 /\ unique_indices = <<>>
    /\ CacheIdle /\ ChunkIdle

\* similarities = cosine_similarity_matrix(embeddings, query_embedding)
search_similarities ==
    /\ pc = "search"
    /\ similarities' = cosine_similarity_matrix(embeddings, query_embedding)
    /\ pc' = "search_argsort"
    /\ UNCHANGED <<query_embedding, embeddings, top_k, threshold, top_indices,
                   results, i, unique_indices, cacheVars, chunkVars>>

\* top_indices = np.argsort(similarities)[::-1][:top_k]
search_top_indices ==
    /\ pc = "search_argsort"
    /\ \E perm \in ArgSorts(similarities) :
          top_indices' = SliceTo(Reversed(perm), top_k)
    /\ i' = 1
    /\ pc' = "search_loop"
    /\ UNCHANGED <<query_embedding, embeddings, top_k, threshold, similarities,
                   results, unique_indices, cacheVars, chunkVars>>

\* One pass of "for idx in top_indices": a score below the threshold is skipped.
search_loop ==
    /\ pc = "search_loop"
    /\ i <= Len(top_indices)
    /\ LET idx == top_indices[i]
           score == similarities[idx + 1]
       IN  results' = IF Lt(score, threshold) THEN results
                      ELSE Append(results, [index |-> idx, score |-> score])
    /\ i' = i + 1
    /\ UNCHANGED <<pc, query_embedding, embeddings, top_k, threshold, similarities,
                   top_indices, unique_indices, cacheVars, chunkVars>>

\* return results
search_return ==
    /\ pc = "search_loop"
    /\ i > Len(top_indices)
    /\ pc' = "search_done"
    /\ UNCHANGED <<vectorVars, cacheVars, chunkVars>>

NextSearch ==
    \/ search_similarities
    \/ search_top_indices
    \/ search_loop
    \/ search_return

SpecSearch == InitSearch /\ [][NextSearch]_vars

ResultIndices == {results[k].index : k \in 1..Len(results)}

\* C4: search_similar returns at most top_k results, each with score >= threshold
\* and each among the top_k highest-scoring candidates (fewer than top_k
\* candidates score strictly higher).
SearchBoundClaim ==
    pc = "search_done" =>
        /\ Len(results) <= top_k
        /\ \A k \in 1..Len(results) :
              /\ Ge(results[k].score, threshold)
              /\ Cardinality({j \in 1..Len(similarities) :
                                 Lt(results[k].score, similarities[j])}) < top_k

\* C5: the results are in descending order of score, results of equal score are
\* in ascending order of index, and of equally scored candidates the ones of
\* lower index are the ones returned.
SearchOrderClaim ==
    pc = "search_done" =>
        /\ \A a, b \in 1..Len(results) : a < b =>
              /\ ~Lt(results[a].score, results[b].score)
              /\ (Eq(results[a].score, results[b].score)
                    => results[a].index < results[b].index)
        /\ \A k \in 1..Len(results) : \A j \in 0..(Len(similarities) - 1) :
              (j < results[k].index /\ Eq(similarities[j + 1], results[k].score))
                 => j \in ResultIndices

(***************************************************************************)
(* deduplicate_by_similarity                                               *)
(***************************************************************************)

InitDedup ==
    /\ pc = "dedup"
    /\ embeddings \in VectorLists
    /\ threshold \in Thresholds
    /\ i = 0
    /\ unique_indices = <<>>
    /\ query_embedding = <<>> /\ top_k = 0
    /\ similarities = <<>> /\ top_indices = <<>> /\ results = <<>>
    /\ CacheIdle /\ ChunkIdle

\* A faulty inner loop: a nan similarity counts as a duplicate (not sim < threshold).
IsDuplicateUnlessLess(es, kept, n, thr) ==
    \E k \in 1..Len(kept) :
        ~Lt(cosine_similarity(es[n + 1], es[kept[k] + 1]), thr)

\* A faulty inner loop: vector n is compared with every earlier vector, kept or not.
IsDuplicateOfAnyEarlier(es, kept, n, thr) ==
    \E j \in 0..(n - 1) :
        Ge(cosine_similarity(es[n + 1], es[j + 1]), thr)

\* The inner loop "for j in unique_indices": is_duplicate for vector n (0-based)
\* against the kept indices.
IsDuplicate(es, kept, n, thr) ==
    \E k \in 1..Len(kept) :
        Ge(cosine_similarity(es[n + 1], es[kept[k] + 1]), thr)

\* One pass of "for i in range(n)"
dedup_loop ==
    /\ pc = "dedup"
    /\ i < Len(embeddings)
    /\ unique_indices' =
          IF IsDuplicate(embeddings, unique_indices, i, threshold)
          THEN unique_indices
          ELSE Append(unique_indices, i)
    /\ i' = i + 1
    /\ UNCHANGED <<pc, query_embedding, embeddings, top_k, threshold, similarities,
                   top_indices, results, cacheVars, chunkVars>>

\* return unique_indices
dedup_return ==
    /\ pc = "dedup"
    /\ i >= Len(embeddings)
    /\ pc' = "dedup_done"
    /\ UNCHANGED <<vectorVars, cacheVars, chunkVars>>

NextDedup ==
    \/ dedup_loop
    \/ dedup_return

SpecDedup == InitDedup /\ [][NextDedup]_vars

Returned == {unique_indices[k] : k \in 1..Len(unique_indices)}
AllIndices == 0..(Len(embeddings) - 1)
Sim(a, b) == cosine_similarity(embeddings[a + 1], embeddings[b + 1])

\* C6, as claimed: with threshold 1.0 every index is returned whenever the input
\* vectors are pairwise distinct component-wise.
DedupDistinctClaim ==
    (/\ pc = "dedup_done"
     /\ threshold = One
     /\ \A a, b \in AllIndices : a # b => embeddings[a + 1] # embeddings[b + 1])
    => unique_indices = [k \in 1..Len(embeddings) |-> k - 1]

\* C6, amended: with threshold 1.0 every index is returned whenever no two input
\* vectors have cosine similarity >= 1.0.
DedupNoFullSimilarity ==
    (/\ pc = "dedup_done"
     /\ threshold = One
     /\ \A a, b \in AllIndices : a # b => ~Ge(Sim(a, b), One))
    => unique_indices = [k \in 1..Len(embeddings) |-> k - 1]

\* A finished run at threshold 1.0 over MaxN vectors, the zero vector and two
\* orthogonal ones among them, no two of similarity >= 1.0, all returned.
DedupNoFullSimilarityWitness ==
    /\ pc = "dedup_done"
    /\ threshold = One
    /\ Len(embeddings) = MaxN
    /\ \E a, b, c \in AllIndices :
          /\ embeddings[a + 1] = <<0, 0>>
          /\ embeddings[b + 1] = <<1, 0>>
          /\ embeddings[c + 1] = <<0, 1>>
    /\ \A a, b \in AllIndices : a # b => ~Ge(Sim(a, b), One)
    /\ Len(unique_indices) = MaxN

\* C10: the returned indices are strictly increasing; index n is returned if and
\* only if no returned index j < n has similarity >= threshold with it; index 0
\* is returned for a non-empty input; no two returned vectors have similarity >=
\* threshold; every dropped vector has an earlier returned one that has.
DedupGreedy ==
    pc = "dedup_done" =>
        /\ \A a, b \in 1..Len(unique_indices) :
              a < b => unique_indices[a] < unique_indices[b]
        /\ Returned \subseteq AllIndices
        /\ \A n \in AllIndices :
              n \in Returned <=>
                 ~\E j \in Returned : j < n /\ Ge(Sim(n, j), threshold)
        /\ (Len(embeddings) > 0 => 0 \in Returned)
        /\ \A a, b \in Returned : a # b => ~Ge(Sim(a, b), threshold)
        /\ \A n \in AllIndices \ Returned :
              \E j \in Returned : j < n /\ Ge(Sim(n, j), threshold)

\* A finished run that dropped a vector and then kept a later one which is similar
\* to the dropped one but to no kept one.
DedupGreedyWitness ==
    /\ pc = "dedup_done"
    /\ \E d \in AllIndices \ Returned : \E n \in Returned :
          /\ d < n
          /\ Ge(Sim(n, d), threshold)

(***************************************************************************)
(* Text chunking. A string is the sequence of its characters; Python's     *)
(* positions are 0-based, so text[k] of the source is text[k + 1] here.    *)
(***************************************************************************)

\* Bounds of the chunker model.
MaxTextLen       == 5   \* length of a text given to chunk_text
MaxChunkSize     == 3   \* chunk_size of chunk_text ranges over 1..MaxChunkSize
MaxOverlap       == 2   \* overlap of chunk_text ranges over 0..MaxOverlap
MaxTokenTextLen  == 6   \* length of a text given to chunk_by_tokens
MaxTokens        == 2   \* max_tokens ranges over 1..MaxTokens
MaxOverlapTokens == 1   \* overlap_tokens ranges over 0..MaxOverlapTokens
MaxWindows       == 4   \* windows chunk_by_tokens is followed for

chars_per_token == 4

\* The default separator of chunk_text.
separator == <<"\n">>

Strings(chars, n) == UNION {[1..k -> chars] : k \in 0..n}

\* The characters the texts of chunk_text and of chunk_by_tokens are made of.
TextChars  == {"a", "b", "c", "\n"}
TokenChars == {"a", ".", " ", "\n"}

\* len(text) reduced as Python reduces a slice bound: a negative one counts from
\* the end, and both are clamped to 0..len.
SliceBound(k, n) == IF k < 0 THEN Max(k + n, 0) ELSE Min(k, n)

\* text[a:b]
Slice(t, a, b) ==
    LET lo == SliceBound(a, Len(t))
        hi == SliceBound(b, Len(t))
    IN  IF lo >= hi THEN <<>> ELSE SubSeq(t, lo + 1, hi)

\* sub occurs in t at 0-based position k
OccursAt(t, sub, k) ==
    /\ k >= 0
    /\ k + Len(sub) <= Len(t)
    /\ \A m \in 1..Len(sub) : t[k + m] = sub[m]

\* text.find(sub), -1 if there is none (sub is not empty)
Find(t, sub) ==
    IF \E k \in 0..Len(t) : OccursAt(t, sub, k)
    THEN CHOOSE k \in 0..Len(t) :
            /\ OccursAt(t, sub, k)
            /\ \A m \in 0..(k - 1) : ~OccursAt(t, sub, m)
    ELSE -1

\* text.rfind(sub, a, b): the highest position of sub within text[a:b], -1 if none
RFind(t, sub, a, b) ==
    LET lo == SliceBound(a, Len(t))
        hi == SliceBound(b, Len(t))
        at == {k \in lo..(hi - Len(sub)) : OccursAt(t, sub, k)}
    IN  IF at = {} THEN -1 ELSE CHOOSE k \in at : \A m \in at : m <= k

\* text.split(sep): the pieces between the occurrences of sep (sep is not empty)
RECURSIVE Split(_, _)
Split(t, sep) ==
    LET k == Find(t, sep)
    IN  IF k = -1 THEN <<t>>
        ELSE <<SubSeq(t, 1, k)>> \o Split(SubSeq(t, k + Len(sep) + 1, Len(t)), sep)

\* sep.join(parts)
RECURSIVE Join(_, _)
Join(parts, sep) ==
    IF parts = <<>> THEN <<>>
    ELSE IF Len(parts) = 1 THEN parts[1]
    ELSE parts[1] \o sep \o Join(Tail(parts), sep)

IsSpace(c) == c \in {" ", "\n"}

\* text.strip()
RECURSIVE LStrip(_)
LStrip(t) == IF t # <<>> /\ IsSpace(t[1]) THEN LStrip(Tail(t)) ELSE t
RECURSIVE RStrip(_)
RStrip(t) ==
    IF t # <<>> /\ IsSpace(t[Len(t)]) THEN RStrip(SubSeq(t, 1, Len(t) - 1)) ELSE t
Strip(t) == RStrip(LStrip(t))

\* The sentence boundaries chunk_by_tokens tries, in its order.
Boundaries == <<<<".", " ">>, <<"!", " ">>, <<"?", " ">>, <<"\n">>>>

\* The end of the window starting at st: st + chunk_size, or, when that is before
\* the end of the text, just after the last occurrence in the window of the first
\* boundary that occurs in it after st.
RECURSIVE BoundaryEnd(_, _, _, _)
BoundaryEnd(t, st, en, b) ==
    IF b > Len(Boundaries) THEN en
    ELSE LET last_boundary == RFind(t, Boundaries[b], st, en)
         IN  IF last_boundary > st
             THEN last_boundary + Len(Boundaries[b])
             ELSE BoundaryEnd(t, st, en, b + 1)

WindowEnd(t, st, size) ==
    LET en == st + size
    IN  IF en < Len(t) THEN BoundaryEnd(t, st, en, 1) ELSE en

InitChunk ==
    /\ \/ /\ fn = "chunk_text"
          /\ pc = "chunk_text_split"
          /\ text \in Strings(TextChars, MaxTextLen)
          /\ chunk_size \in 1..MaxChunkSize
          /\ overlap \in 0..MaxOverlap
       \/ /\ fn = "chunk_by_tokens"
          /\ pc = "chunk_by_tokens"
          /\ text \in Strings(TokenChars, MaxTokenTextLen)
          /\ \E max_tokens \in 1..MaxTokens, overlap_tokens \in 0..MaxOverlapTokens :
                /\ chunk_size = max_tokens * chars_per_token
                /\ overlap = overlap_tokens * chars_per_token
    /\ paragraphs = <<>> /\ p = 0 /\ current_chunk = <<>> /\ current_size = 0
    /\ chunks = <<>> /\ start = 0
    /\ CacheIdle /\ VectorIdle

\* chunk_text: paragraphs = text.split(separator)
chunk_text_split ==
    /\ pc = "chunk_text_split"
    /\ paragraphs' = Split(text, separator)
    /\ p' = 1
    /\ pc' = "chunk_text_loop"
    /\ UNCHANGED <<fn, text, chunk_size, overlap, current_chunk, current_size,
                   chunks, start, cacheVars, vectorVars>>

\* chunk_text: one pass of "for para in paragraphs"
chunk_text_loop ==
    /\ pc = "chunk_text_loop"
    /\ p <= Len(paragraphs)
    /\ LET para == paragraphs[p]
           para_size == Len(para)
           emit == current_size + para_size > chunk_size /\ current_chunk # <<>>
           overlap_text == Join(current_chunk, separator)
           keep == emit /\ Len(overlap_text) > overlap
           kept_chunk == IF ~emit THEN current_chunk
                         ELSE IF keep THEN <<current_chunk[Len(current_chunk)]>>
                         ELSE <<>>
           kept_size == IF ~emit THEN current_size
                        ELSE IF keep THEN Len(current_chunk[Len(current_chunk)])
                        ELSE 0
       IN  /\ chunks' = IF emit THEN Append(chunks, Join(current_chunk, separator))
                        ELSE chunks
           /\ current_chunk' = Append(kept_chunk, para)
           /\ current_size' = kept_size + para_size
    /\ p' = p + 1
    /\ UNCHANGED <<pc, fn, text, chunk_size, overlap, paragraphs, start,
                   cacheVars, vectorVars>>

\* chunk_text: the last chunk, and return chunks
chunk_text_return ==
    /\ pc = "chunk_text_loop"
    /\ p > Len(paragraphs)
    /\ chunks' = IF current_chunk # <<>>
                 THEN Append(chunks, Join(current_chunk, separator))
                 ELSE chunks
    /\ pc' = "chunk_done"
    /\ UNCHANGED <<fn, text, chunk_size, overlap, paragraphs, p, current_chunk,
                   current_size, start, cacheVars, vectorVars>>

\* chunk_by_tokens: one pass of "while start < len(text)"
chunk_by_tokens_loop ==
    /\ pc = "chunk_by_tokens"
    /\ start < Len(text)
    /\ Len(chunks) < MaxWindows
    /\ LET end == WindowEnd(text, start, chunk_size)
       IN  /\ chunks' = Append(chunks, Strip(Slice(text, start, end)))
           /\ start' = end - overlap
    /\ UNCHANGED <<pc, fn, text, chunk_size, overlap, paragraphs, p, current_chunk,
                   current_size, cacheVars, vectorVars>>

\* chunk_by_tokens: return [c for c in chunks if c]
chunk_by_tokens_return ==
    /\ pc = "chunk_by_tokens"
    /\ start >= Len(text)
    /\ chunks' = SelectSeq(chunks, LAMBDA c : c # <<>>)
    /\ pc' = "chunk_done"
    /\ UNCHANGED <<fn, text, chunk_size, overlap, paragraphs, p, current_chunk,
                   current_size, start, cacheVars, vectorVars>>

NextChunk ==
    \/ chunk_text_split
    \/ chunk_text_loop
    \/ chunk_text_return
    \/ chunk_by_tokens_loop
    \/ chunk_by_tokens_return

SpecChunk == InitChunk /\ [][NextChunk]_vars

\* Every paragraph of the text is one character.
SingleCharParagraphs == \A k \in 1..Len(paragraphs) : Len(paragraphs[k]) = 1

\* C7: chunk_text with chunk_size 1 and overlap 0 on single-character paragraphs
\* returns each paragraph as its own chunk, none repeated; "a\nb\nc" gives
\* ["a", "b", "c"].
ChunkTextSingleClaim ==
    (/\ pc = "chunk_done" /\ fn = "chunk_text"
     /\ chunk_size = 1 /\ overlap = 0
     /\ SingleCharParagraphs)
    => chunks = paragraphs

\* C8: no chunk returned by chunk_text or by chunk_by_tokens is the empty string.
NoEmptyChunkClaim ==
    pc = "chunk_done" => \A k \in 1..Len(chunks) : chunks[k] # <<>>

\* C9: every pass of the loop of chunk_by_tokens moves the window start strictly
\* forward, never to a negative position.
TokensProgressClaim ==
    [][(pc = "chunk_by_tokens" /\ pc' = "chunk_by_tokens")
       => (start' > start /\ start' >= 0)]_vars

====
